---- MODULE Spec2Model ----
(***************************************************************************)
(* Model of the Meteora pool monitor: the WebSocketManager connection      *)
(* lifecycle (initialize / onopen / onmessage / onclose / reconnect /      *)
(* heartbeat / shutdown) and HeliusApiService.fetchTransactionDetails, the *)
(* bounded-retry detail fetch it drives.                                   *)
(*                                                                         *)
(* Node runs every callback to completion on one event loop, so each       *)
(* callback (and each stretch of an async function between two awaits) is  *)
(* one action.  Time is abstract: events are interleaved freely, except    *)
(* where the code's own timer lengths order them (see reconnect).          *)
(*                                                                         *)
(* Delays are JavaScript doubles.  Every delay the program computes is     *)
(* k * 3^n / 2^n milliseconds with small n, which a double holds exactly;  *)
(* the model keeps them as integers in units of 1/Scale ms, which holds    *)
(* every delay below its cap exactly (a product that is rounded exceeds    *)
(* the cap and is replaced by it).                                         *)
(***************************************************************************)
EXTENDS Integers, Sequences, FiniteSets, TLC

\* ---------------------------------------------------------------- bounds
MaxOpens   == 1   \* open events the remote grants in one run
MaxSignals == 2   \* SIGINT / SIGTERM deliveries in one run
MaxFetches == 1   \* relevant notifications (fetches started) in one run
MaxCalls   == 2   \* fetchTransactionDetails calls in flight together
MaxLive    == 2   \* transports and pending reconnects when initialize() is called again

\* ----------------------------------------------------- program constants
MAX_RETRIES                   == 10
INITIAL_RETRY_DELAY           == 1000
MAX_RETRY_DELAY               == 30000
TXN_FETCH_MAX_RETRIES         == 3
TXN_FETCH_INITIAL_DELAY       == 2000
TXN_FETCH_MAX_DELAY           == 10000
TXN_FETCH_FIRST_ATTEMPT_DELAY == 1000
SUBSCRIBE_ID                  == 1
UNSUBSCRIBE_ID                == 999
SHUTDOWN_GRACE                == 1000

Scale == 2^5                  \* model units per millisecond
Ms(n) == n * Scale

NULL == 0 - 1                 \* JavaScript null for number | null fields
Truthy(x) == x # NULL /\ x # 0   \* if (x) on a number | null

Min(a, b) == IF a <= b THEN a ELSE b

\* delay * 1.5 (reconnect, heliusApi backoff)
Times15_double(d) == d * 2
Times15(d) == (d * 3) \div 2

\* Math.min(delay * 1.5, cap)
NextDelay_nocap(d, cap) == Times15(d)
NextDelay_capFirst(d, cap) == Times15(Min(d, Ms(cap)))
NextDelay(d, cap) == Min(Times15(d), Ms(cap))

VARIABLES
    ws,                \* WebSocketManager.ws: NULL or the id of the current transport
    retryCount,        \* WebSocketManager.retryCount
    retryDelay,        \* WebSocketManager.retryDelay (scaled)
    subscriptionId,    \* WebSocketManager.subscriptionId: NULL or the handle
    heartbeatInterval, \* WebSocketManager.heartbeatInterval: NULL or a timer id
    sock,              \* readyState of every transport not yet closed, by id
    opened,            \* transports whose open event has been delivered
    heartbeats,        \* armed setInterval timers (ids)
    timers,            \* pending reconnect setTimeout callbacks
    exitTimers,        \* pending shutdown setTimeout callbacks
    exitCode,          \* NULL while the process runs, else its exit code
    signals,           \* signals delivered so far
    sent,              \* every ws.send call, in order
    fetches,           \* fetchTransactionDetails invocations, in start order
    nOpen,             \* open events delivered so far
    closesSinceOpen,   \* close events since the last open event
    initsSinceOpen,    \* initialize() calls since the last open event
    lastOpen,          \* what the last onopen observed when it sent the subscribe
    lastMsg,           \* the message handled last and what came of it (observed runs)
    lastBeat,          \* the heartbeat callback that ran last and what it saw
    tx,                \* the record handed to TransactionAnalyzer (analyzer runs)
    report             \* what analyzeTransaction made of it

vars == << ws, retryCount, retryDelay, subscriptionId, heartbeatInterval, sock,
           opened, heartbeats, timers, exitTimers, exitCode, signals, sent,
           fetches, nOpen, closesSinceOpen, initsSinceOpen, lastOpen, lastMsg,
           lastBeat, tx, report >>

connVars == << ws, retryCount, retryDelay, subscriptionId, heartbeatInterval, sock,
               opened, heartbeats, timers, exitTimers, exitCode, signals, sent,
               nOpen, closesSinceOpen, initsSinceOpen, lastOpen, lastMsg, lastBeat,
               tx, report >>

\* what the observed runs record
obsVars == << lastMsg, lastBeat, tx, report >>

Running == exitCode = NULL

\* the transports that can still raise events (a closed one raises none)
Socks == DOMAIN sock

Started == initsSinceOpen > 0 \/ nOpen > 0

\* ws.readyState of transport t
ReadyState(t) == IF t \in Socks THEN sock[t] ELSE "CLOSED"

Init ==
    /\ ws = NULL
    /\ retryCount = 0
    /\ retryDelay = Ms(INITIAL_RETRY_DELAY)
    /\ subscriptionId = NULL
    /\ heartbeatInterval = NULL
    /\ sock = << >>
    /\ opened = {}
    /\ heartbeats = {}
    /\ timers = << >>
    /\ exitTimers = 0
    /\ exitCode = NULL
    /\ signals = 0
    /\ sent = << >>
    /\ fetches = << >>
    /\ nOpen = 0
    /\ closesSinceOpen = 0
    /\ initsSinceOpen = 0
    /\ lastOpen = << >>
    /\ lastMsg = << >>
    /\ lastBeat = << >>
    /\ tx = << >>
    /\ report = << >>

\* ------------------------------------------------- WebSocketManager pieces

\* initialize(): this.ws = new WebSocket(WS_URL), handlers attached to it
NewSock == CHOOSE n \in 1..(Cardinality(Socks) + 1) :
              /\ n \notin Socks
              /\ \A k \in 1..(n - 1) : k \in Socks

\* a fresh id for a setInterval timer
NewTimer == CHOOSE n \in 1..(Cardinality(heartbeats) + 1) :
              /\ n \notin heartbeats
              /\ \A k \in 1..(n - 1) : k \in heartbeats

\* onopen: this.retryCount = 0
OpenRetryCount_keep(rc) == rc
OpenRetryCount(rc) == 0

\* onopen: this.retryDelay = INITIAL_RETRY_DELAY
OpenRetryDelay(rd) == Ms(INITIAL_RETRY_DELAY)

\* one ws.send call on the current transport
SendRec(rs, method, id, params) ==
    [sock |-> ws, rs |-> rs, method |-> method, id |-> id, params |-> params]

\* this.ws.send(...) throws when the current transport is still connecting
SendThrows(rs) == ws # NULL /\ rs = "CONNECTING"

\* subscribe(): if (!this.ws) return; this.ws.send(logsSubscribe, id 1)
SubscribeSends(rs) ==
    IF ws = NULL THEN << >> ELSE << SendRec(rs, "logsSubscribe", SUBSCRIBE_ID, NULL) >>

\* stopHeartbeat(): clearInterval + null, only if a timer is recorded
HeartbeatsAfterStop_keep == heartbeats
HeartbeatsAfterStop == IF heartbeatInterval # NULL THEN heartbeats \ {heartbeatInterval}
                                                   ELSE heartbeats

\* reconnect(): if (this.retryCount < MAX_RETRIES)
BudgetLeft_offByOne(rc) == rc <= MAX_RETRIES
BudgetLeft(rc) == rc < MAX_RETRIES

\* shutdown(): if (this.ws && this.subscriptionId)
ShouldUnsubscribe == ws # NULL /\ Truthy(subscriptionId)

\* ws.close(): starts the closing handshake of a connecting or open transport
SockAfterClose(s) ==
    IF ws # NULL /\ ReadyState(ws) \in {"CONNECTING", "OPEN"}
    THEN [s EXCEPT ![ws] = "CLOSING"] ELSE s

\* A pending reconnect callback can run before process.exit(0) unless it was
\* scheduled after the shutdown timer with a delay at least as long: timers
\* of equal length run in the order they were set.
CanFire(tm) == ~ tm.afterShutdown \/ tm.delay < Ms(SHUTDOWN_GRACE)

RemoveAt(seq, i) == [j \in 1..(Len(seq) - 1) |-> IF j < i THEN seq[j] ELSE seq[j + 1]]

\* --------------------------------------------------------------- actions

\* MeteoraMonitorApp.start(): the one initialize() call of the application
Start ==
    /\ Running
    /\ ~ Started
    /\ ws' = NewSock
    /\ sock' = sock @@ (NewSock :> "CONNECTING")
    /\ initsSinceOpen' = initsSinceOpen + 1
    /\ UNCHANGED << retryCount, retryDelay, subscriptionId, heartbeatInterval, opened,
                    heartbeats, timers, exitTimers, exitCode, signals, sent, fetches,
                    nOpen, closesSinceOpen, lastOpen >>
    /\ UNCHANGED obsVars

\* ws.onopen of transport t
OnOpen(t) ==
    /\ Running
    /\ t \in Socks
    /\ sock[t] = "CONNECTING"
    /\ nOpen < MaxOpens
    /\ LET rc1 == OpenRetryCount(retryCount)
           rd1 == OpenRetryDelay(retryDelay)
           rs1 == IF ws = t THEN "OPEN" ELSE ReadyState(ws)
           sends == IF SendThrows(rs1) THEN << >> ELSE SubscribeSends(rs1)
       IN  /\ retryCount' = rc1
           /\ retryDelay' = rd1
           /\ sent' = sent \o sends
           /\ lastOpen' = [sock |-> t, rc |-> rc1, rd |-> rd1,
                           afterRetry |-> retryCount > 0,
                           subscribed |-> Len(sends),
                           hb |-> heartbeatInterval]
           /\ IF SendThrows(rs1)
              THEN \* subscribe() throws out of the handler: uncaught, the process dies
                   /\ exitCode' = 1
                   /\ UNCHANGED << heartbeatInterval, heartbeats >>
              ELSE /\ heartbeatInterval' = NewTimer
                   /\ heartbeats' = heartbeats \cup {NewTimer}
                   /\ UNCHANGED exitCode
    /\ sock' = [sock EXCEPT ![t] = "OPEN"]
    /\ opened' = opened \cup {t}
    /\ nOpen' = nOpen + 1
    /\ closesSinceOpen' = 0
    /\ initsSinceOpen' = 0
    /\ UNCHANGED << ws, subscriptionId, timers, exitTimers, signals, fetches >>
    /\ UNCHANGED obsVars

\* ws.onclose of transport t: clear the handle, stopHeartbeat(), reconnect()
OnClose(t) ==
    /\ Running
    /\ t \in Socks
    /\ sock' = [x \in Socks \ {t} |-> sock[x]]
    /\ opened' = opened \ {t}
    /\ subscriptionId' = IF Truthy(subscriptionId) THEN NULL ELSE subscriptionId
    /\ heartbeats' = HeartbeatsAfterStop
    /\ heartbeatInterval' = NULL
    /\ closesSinceOpen' = closesSinceOpen + 1
    /\ IF BudgetLeft(retryCount)
       THEN /\ retryCount' = retryCount + 1
            /\ timers' = Append(timers, [delay |-> retryDelay,
                                         afterShutdown |-> signals > 0,
                                         n |-> closesSinceOpen + 1,
                                         stale |-> t # ws])
            /\ UNCHANGED exitCode
       ELSE /\ exitCode' = 1
            /\ UNCHANGED << retryCount, timers >>
    /\ UNCHANGED << ws, retryDelay, exitTimers, signals, sent, fetches,
                    nOpen, initsSinceOpen, lastOpen >>
    /\ UNCHANGED obsVars

\* the setTimeout callback of reconnect(): grow the delay, initialize()
ReconnectTimer_rearm(i) ==
    /\ Running
    /\ i \in 1..Len(timers)
    /\ CanFire(timers[i])
    /\ timers' = timers
    /\ retryDelay' = NextDelay(retryDelay, MAX_RETRY_DELAY)
    /\ ws' = NewSock
    /\ sock' = sock @@ (NewSock :> "CONNECTING")
    /\ initsSinceOpen' = initsSinceOpen + 1
    /\ UNCHANGED << retryCount, subscriptionId, heartbeatInterval, opened, heartbeats,
                    exitTimers, exitCode, signals, sent, fetches, nOpen,
                    closesSinceOpen, lastOpen >>
    /\ UNCHANGED obsVars
ReconnectTimer(i) ==
    /\ Running
    /\ i \in 1..Len(timers)
    /\ CanFire(timers[i])
    /\ timers' = RemoveAt(timers, i)
    /\ retryDelay' = NextDelay(retryDelay, MAX_RETRY_DELAY)
    /\ ws' = NewSock
    /\ sock' = sock @@ (NewSock :> "CONNECTING")
    /\ initsSinceOpen' = initsSinceOpen + 1
    /\ UNCHANGED << retryCount, subscriptionId, heartbeatInterval, opened, heartbeats,
                    exitTimers, exitCode, signals, sent, fetches, nOpen,
                    closesSinceOpen, lastOpen >>
    /\ UNCHANGED obsVars

\* process.on('SIGINT' | 'SIGTERM'): shutdown()
Signal(sig) ==
    /\ Running
    /\ Started
    /\ signals < MaxSignals
    /\ signals' = signals + 1
    /\ IF ShouldUnsubscribe /\ SendThrows(ReadyState(ws))
       THEN \* ws.send throws on a connecting transport: uncaught, the process dies
            /\ exitCode' = 1
            /\ UNCHANGED << sent, heartbeats, heartbeatInterval, sock, exitTimers >>
       ELSE /\ sent' = IF ShouldUnsubscribe
                       THEN Append(sent, SendRec(ReadyState(ws), "logsUnsubscribe",
                                                 UNSUBSCRIBE_ID, subscriptionId))
                       ELSE sent
            /\ heartbeats' = HeartbeatsAfterStop
            /\ heartbeatInterval' = NULL
            /\ sock' = SockAfterClose(sock)
            /\ exitTimers' = exitTimers + 1
            /\ UNCHANGED exitCode
    /\ UNCHANGED << ws, retryCount, retryDelay, subscriptionId, opened, timers,
                    fetches, nOpen, closesSinceOpen, initsSinceOpen, lastOpen >>
    /\ UNCHANGED obsVars

\* the setTimeout callback of shutdown(): process.exit(0)
ExitTimer ==
    /\ Running
    /\ exitTimers > 0
    /\ exitCode' = 0
    /\ UNCHANGED << ws, retryCount, retryDelay, subscriptionId, heartbeatInterval,
                    sock, opened, heartbeats, timers, exitTimers, signals, sent,
                    fetches, nOpen, closesSinceOpen, initsSinceOpen, lastOpen >>
    /\ UNCHANGED obsVars

\* ------------------------------------------------------ inbound messages

\* The values the remote may return as a subscription handle
Handles == {0, 7}

\* Transaction signatures carried by notifications
Sigs == {"sigA"}

LP_ACCOUNT_ADDRESS == "8Pm2kZpnxD3hoMmt4bjStX2Pw2Z9abpbHzZxMPqxPmie"

METEORA_PROGRAMS == { "Eo7WjKq67rjJQSYxS6z3YkapzY3eMj6Xy8X5EQVn5UaB",
                      "LBUZKhRxPF3XUpBCjp4YzTKgLccjZhTSDM9YuVaPwxo",
                      "24Uqj9JCLxUeoC3hGfh5W3s9FM9uCHDS2SG3LYwBpyTi",
                      "whirLbMiicVdio4qvUfM5KAg6Ct8VwpYzGff3uctyCc" }

\* A log line is the set of words it is made of; a needle is one word.
Includes(line, needle) == needle \in line

LowerWord(w) ==
    CASE w = "Pool"      -> "pool"
      [] w = "POOL"      -> "pool"
      [] w = "Liquidity" -> "liquidity"
      [] w = "Swap"      -> "swap"
      [] w = "Meteora"   -> "meteora"
      [] w = "DAMM"      -> "damm"
      [] OTHER           -> w

\* log.toLowerCase()
ToLowerCase(line) == { LowerWord(w) : w \in line }

\* The log lines notifications are built from
LogLines ==
    { {"swap"}, {"Swap"}, {"Meteora"}, {"DAMM"}, {LP_ACCOUNT_ADDRESS}, {"Pool"},
      {"Liquidity"}, {"invoke"}, {"invoke", "pool"} }
    \cup { {p} : p \in METEORA_PROGRAMS }

\* handleMessage: the predicate of logData.value.logs.filter(...)
RelevantLog_noAddress(log) ==
    \/ Includes(log, "swap")
    \/ Includes(log, "Meteora")
    \/ Includes(log, "DAMM")
    \/ \E programId \in METEORA_PROGRAMS : Includes(log, programId)
    \/ Includes(ToLowerCase(log), "pool")
RelevantLog(log) ==
    \/ Includes(log, "swap")
    \/ Includes(log, "Meteora")
    \/ Includes(log, "DAMM")
    \/ \E programId \in METEORA_PROGRAMS : Includes(log, programId)
    \/ Includes(log, LP_ACCOUNT_ADDRESS)
    \/ Includes(ToLowerCase(log), "pool")

RelevantLogs(logs) == { i \in 1..Len(logs) : RelevantLog(logs[i]) }

Msg(valid, id, hasResult, result, method, params, sig, hasLogs, logs, error) ==
    [valid |-> valid, id |-> id, hasResult |-> hasResult, result |-> result,
     method |-> method, params |-> params, sig |-> sig, hasLogs |-> hasLogs,
     logs |-> logs, error |-> error]

\* the reply to request id, carrying a result
Reply(id, r) == Msg(TRUE, id, TRUE, r, "", "absent", "", FALSE, << >>, FALSE)

Ack(h) == Reply(SUBSCRIBE_ID, h)

\* the reply to request id, carrying an error and no result
ErrorReply(id) == Msg(TRUE, id, FALSE, NULL, "", "absent", "", FALSE, << >>, TRUE)

\* a payload JSON.parse rejects
Malformed == Msg(FALSE, NULL, FALSE, NULL, "", "absent", "", FALSE, << >>, FALSE)

Notification(sig, logs) ==
    Msg(TRUE, NULL, FALSE, NULL, "logsNotification", "value", sig, TRUE, logs, FALSE)

\* a notification whose value has a signature and no log array
NoLogs(sig) ==
    Msg(TRUE, NULL, FALSE, NULL, "logsNotification", "value", sig, FALSE, << >>, FALSE)

\* a notification without logs of interest that also carries an error member
ErrorNotification(sig) ==
    Msg(TRUE, NULL, FALSE, NULL, "logsNotification", "value", sig, TRUE,
        << {"invoke"} >>, TRUE)

\* The log arrays notifications carry: none, one or two lines
LogArrays ==
    { << >> } \cup { << l >> : l \in LogLines } \cup { << {"invoke"}, l >> : l \in LogLines }

\* The messages the remote may deliver
Messages ==
    { Ack(h) : h \in Handles }
    \cup { Reply(UNSUBSCRIBE_ID, 7), ErrorReply(SUBSCRIBE_ID), Malformed }
    \cup { Notification(s, logs) : s \in Sigs, logs \in LogArrays }
    \cup { Notification("", << {LP_ACCOUNT_ADDRESS} >>), NoLogs("sigA"),
           ErrorReply(NULL), ErrorNotification("sigA") }

\* The try block of handleMessage: what it does with a message, or the
\* exception it raises
Dispatch(m) ==
    IF ~ m.valid THEN "parseError"
    ELSE IF m.hasResult /\ m.id = SUBSCRIBE_ID THEN "ack"
    ELSE IF m.method = "logsNotification" /\ m.params # "absent"
         THEN IF m.params = "noResult" THEN "typeError"
              ELSE IF m.params = "value" /\ m.sig # "" /\ m.hasLogs
                   THEN IF RelevantLogs(m.logs) # {} THEN "fetch" ELSE "irrelevant"
                   ELSE "skipped"
    ELSE "other"

\* handleMessage: try { ... } catch (error) { log }: nothing escapes
Handling_rethrow(m) ==
    IF Dispatch(m) \in {"parseError", "typeError"} THEN "uncaught" ELSE Dispatch(m)
Handling_anySignature(m) ==
    IF Dispatch(m) = "irrelevant" THEN "fetch" ELSE Dispatch(m)
Handling_anyId(m) ==
    IF m.valid /\ m.hasResult THEN "ack" ELSE Dispatch(m)
Handling_trusting(m) ==
    IF Dispatch(m) = "skipped" /\ m.sig # "" THEN "fetch" ELSE Dispatch(m)
Handling_idOnly(m) ==
    IF m.valid /\ m.id = SUBSCRIBE_ID THEN "ack" ELSE Dispatch(m)
Handling(m) == Dispatch(m)

\* ------------------------------------- HeliusApiService.fetchTransactionDetails

\* What one network call can come to:
\*   ok        a non-empty array whose first element is a transaction object
\*   empty     an empty (or absent) array
\*   http      a response with !response.ok (the code throws an Error)
\*   throw     fetch() rejects, or response.json() fails to parse
\*   nullElem  a non-empty array whose first element is null (reading its
\*             fields throws a TypeError)
\*   partial   a non-empty array whose first element is an object without the
\*             slot or the transaction / meta fields
Outcomes == {"ok", "partial", "empty", "http", "throw", "nullElem"}

\* if (data && data.length > 0): the element itself is not inspected
Accepted(o) == o \in {"ok", "partial"}

Failures == { o \in Outcomes : ~ Accepted(o) }

\* the outcomes that raise an exception inside the loop body
Throws(o) == o \in {"http", "throw", "nullElem"}

\* The branch of the loop body an outcome ends in: the return (line 62), the
\* else of the emptiness test (lines 63-69) or the catch (lines 70-76)
Branch(o) == IF Accepted(o) THEN o ELSE IF Throws(o) THEN "caught" ELSE "empty"

\* try { ... } catch spans the whole loop body: every exception is caught
Caught_httpEscapes(o) == o # "http"
Caught(o) == TRUE

\* for (...; attempt <= TXN_FETCH_MAX_RETRIES; ...)
LoopGuard_oneLess(attempt) == attempt < TXN_FETCH_MAX_RETRIES
LoopGuard(attempt) == attempt <= TXN_FETCH_MAX_RETRIES

\* if (attempt < TXN_FETCH_MAX_RETRIES) await this.sleepWithBackoff(delay)
SleepsAfter(attempt) == attempt < TXN_FETCH_MAX_RETRIES

\* handleMessage: if (transaction) TransactionAnalyzer.analyzeTransaction(transaction)
Analyzes_always(result) == TRUE
Analyzes(result) == result = "record"

\* the state of a call when it reaches its first await
NewFetch(sig) ==
    [sig |-> sig,
     pc |-> IF TXN_FETCH_FIRST_ATTEMPT_DELAY > 0 THEN "firstDelay" ELSE "request",
     attempt |-> 1,
     delay |-> Ms(TXN_FETCH_INITIAL_DELAY),
     calls |-> 0,          \* network calls made
     last |-> "none",      \* the branch the latest network call ended in
     slept |-> << >>,      \* the delays of sleepWithBackoff, in order
     result |-> "pending", \* "record" | "null" | "threw" once the call is over
     analyzed |-> 0]       \* analyzeTransaction calls for this call's result

\* the call is over: the loop is left with no record
ReturnNull(f, attempt) ==
    [f EXCEPT !.pc = "done", !.attempt = attempt, !.result = "null",
              !.analyzed = IF Analyzes("null") THEN 1 ELSE 0]

\* a failed attempt: back off if attempts remain, then the next iteration
AfterFailure(f, o) ==
    LET g == [f EXCEPT !.calls = f.calls + 1, !.last = Branch(o)]
    IN  IF Throws(o) /\ ~ Caught(o)
        THEN [g EXCEPT !.pc = "done", !.result = "threw"]
        ELSE IF SleepsAfter(f.attempt)
        THEN [g EXCEPT !.pc = "backoff", !.slept = Append(f.slept, f.delay)]
        ELSE IF LoopGuard(f.attempt + 1)
        THEN [g EXCEPT !.pc = "request", !.attempt = f.attempt + 1]
        ELSE ReturnNull(g, f.attempt + 1)

\* a successful attempt: return data[0]; handleMessage analyzes it
AfterSuccess(f, o) ==
    [f EXCEPT !.calls = f.calls + 1, !.last = Branch(o), !.pc = "done", !.result = "record",
              !.analyzed = IF Analyzes("record") THEN 1 ELSE 0]

\* sleepWithBackoff is over: delay = Math.min(delay * 1.5, MAX), attempt++
AfterBackoff(f) ==
    LET g == [f EXCEPT !.delay = NextDelay(f.delay, TXN_FETCH_MAX_DELAY)]
    IN  IF LoopGuard(f.attempt + 1)
        THEN [g EXCEPT !.pc = "request", !.attempt = f.attempt + 1]
        ELSE ReturnNull(g, f.attempt + 1)

\* the first-attempt sleep is over: enter the loop
AfterFirstDelay(f) ==
    IF LoopGuard(f.attempt) THEN [f EXCEPT !.pc = "request"] ELSE ReturnNull(f, f.attempt)

\* ws.onmessage does not await handleMessage: a message is handled whatever
\* the calls started by earlier messages are doing
CanStart_serial(fs) == \A i \in 1..Len(fs) : fs[i].pc = "done"
CanStart(fs) == TRUE

\* handleMessage runs up to await fetchTransactionDetails(signature) within the
\* message callback: the call is made, and reaches its first await, there
StartFetch_front(fs, sig) == << NewFetch(sig) >> \o fs
StartFetch(fs, sig) == Append(fs, NewFetch(sig))

\* handleMessage(event) for a message m that arrived on transport t, with at
\* most cap calls started in one run; an
\* exception leaving the async handler is an unhandled rejection
HandleMessage(t, m, cap) ==
    /\ Running
    /\ t \in opened
    /\ sock[t] \in {"OPEN", "CLOSING"}
    /\ LET h == Handling(m)
       IN  /\ subscriptionId' = IF h = "ack" THEN m.result ELSE subscriptionId
           /\ exitCode' = IF h = "uncaught" THEN 1 ELSE exitCode
           /\ IF h = "fetch"
              THEN /\ Len(fetches) < cap
                   /\ CanStart(fetches)
                   /\ fetches' = StartFetch(fetches, m.sig)
              ELSE UNCHANGED fetches
    /\ UNCHANGED << ws, retryCount, retryDelay, heartbeatInterval, sock, opened,
                    heartbeats, timers, exitTimers, signals, sent, nOpen,
                    closesSinceOpen, initsSinceOpen, lastOpen >>

\* ws.onmessage of transport t
OnMessage(t, m) ==
    /\ HandleMessage(t, m, MaxFetches)
    /\ UNCHANGED obsVars

\* ws.onmessage of transport t, recording the message and what came of it
OnMessageObserved(t, m) ==
    /\ HandleMessage(t, m, MaxCalls)
    /\ lastMsg' = [sock |-> t, m |-> m, started |-> Len(fetches') - Len(fetches)]
    /\ UNCHANGED << lastBeat, tx, report >>

\* the callback of startHeartbeat: if (this.ws?.readyState === WebSocket.OPEN) log
HeartbeatLine(rs) == rs = "OPEN"

\* the setInterval callback of heartbeat timer id runs
HeartbeatTick(id) ==
    /\ Running
    /\ id \in heartbeats
    /\ lastBeat' = [timer |-> id, rs |-> ReadyState(ws),
                    line |-> HeartbeatLine(ReadyState(ws))]
    /\ UNCHANGED << ws, retryCount, retryDelay, subscriptionId, heartbeatInterval,
                    sock, opened, heartbeats, timers, exitTimers, exitCode, signals,
                    sent, fetches, nOpen, closesSinceOpen, initsSinceOpen, lastOpen,
                    lastMsg, tx, report >>

\* initialize() called again while the current transport is connecting or open
Reinitialize ==
    /\ Running
    /\ ReadyState(ws) \in {"CONNECTING", "OPEN"}
    /\ Cardinality(Socks) + Len(timers) < MaxLive
    /\ ws' = NewSock
    /\ sock' = sock @@ (NewSock :> "CONNECTING")
    /\ initsSinceOpen' = initsSinceOpen + 1
    /\ UNCHANGED << retryCount, retryDelay, subscriptionId, heartbeatInterval, opened,
                    heartbeats, timers, exitTimers, exitCode, signals, sent, fetches,
                    nOpen, closesSinceOpen, lastOpen >>
    /\ UNCHANGED obsVars

\* sleep(TXN_FETCH_FIRST_ATTEMPT_DELAY) of call i resolves
FetchFirstDelay(i) ==
    /\ Running
    /\ i \in 1..Len(fetches)
    /\ fetches[i].pc = "firstDelay"
    /\ fetches' = [fetches EXCEPT ![i] = AfterFirstDelay(fetches[i])]
    /\ UNCHANGED connVars

\* the network call of call i settles with outcome o; the call knows nothing
\* of the connection
FetchAttempt_reconnects(i, o) ==
    /\ Running
    /\ i \in 1..Len(fetches)
    /\ fetches[i].pc = "request"
    /\ fetches' = [fetches EXCEPT ![i] = IF Accepted(o) THEN AfterSuccess(fetches[i], o)
                                                    ELSE AfterFailure(fetches[i], o)]
    /\ retryCount' = IF Accepted(o) THEN retryCount ELSE retryCount + 1
    /\ UNCHANGED << ws, retryDelay, subscriptionId, heartbeatInterval, sock, opened,
                    heartbeats, timers, exitTimers, exitCode, signals, sent, nOpen,
                    closesSinceOpen, initsSinceOpen, lastOpen >>
    /\ UNCHANGED obsVars
FetchAttempt_whileOpen(i, o) ==
    /\ Running
    /\ ReadyState(ws) = "OPEN"
    /\ i \in 1..Len(fetches)
    /\ fetches[i].pc = "request"
    /\ fetches' = [fetches EXCEPT ![i] = IF Accepted(o) THEN AfterSuccess(fetches[i], o)
                                                    ELSE AfterFailure(fetches[i], o)]
    /\ UNCHANGED connVars
FetchAttempt(i, o) ==
    /\ Running
    /\ i \in 1..Len(fetches)
    /\ fetches[i].pc = "request"
    /\ fetches' = [fetches EXCEPT ![i] = IF Accepted(o) THEN AfterSuccess(fetches[i], o)
                                                    ELSE AfterFailure(fetches[i], o)]
    /\ UNCHANGED connVars

\* sleepWithBackoff(delay) of call i resolves; delay and attempt are locals
\* of the call
FetchBackoff_shared(i) ==
    /\ Running
    /\ i \in 1..Len(fetches)
    /\ fetches[i].pc = "backoff"
    /\ fetches' = [j \in 1..Len(fetches) |->
                     IF j = i THEN AfterBackoff(fetches[i])
                     ELSE [fetches[j] EXCEPT !.delay = AfterBackoff(fetches[i]).delay]]
    /\ UNCHANGED connVars
FetchBackoff(i) ==
    /\ Running
    /\ i \in 1..Len(fetches)
    /\ fetches[i].pc = "backoff"
    /\ fetches' = [fetches EXCEPT ![i] = AfterBackoff(fetches[i])]
    /\ UNCHANGED connVars

\* ---------------------------------------------------------- specification

Next ==
    \/ Start
    \/ \E t \in Socks : OnOpen(t)
    \/ \E t \in Socks, m \in Messages : OnMessage(t, m)
    \/ \E t \in Socks : OnClose(t)
    \/ \E i \in 1..Len(timers) : ReconnectTimer(i)
    \/ \E sig \in {"SIGINT", "SIGTERM"} : Signal(sig)
    \/ ExitTimer
    \/ \E i \in 1..Len(fetches) : FetchFirstDelay(i)
    \/ \E i \in 1..Len(fetches), o \in Outcomes : FetchAttempt(i, o)
    \/ \E i \in 1..Len(fetches) : FetchBackoff(i)

Spec == Init /\ [][Next]_vars

\* The signatures of the notifications that start concurrent calls
CallSigs == {"sigA", "sigB"}

\* The first transport is open and its subscription not yet acknowledged
OpenTransport ==
    /\ ws = 1
    /\ retryCount = 0
    /\ retryDelay = Ms(INITIAL_RETRY_DELAY)
    /\ subscriptionId = NULL
    /\ heartbeatInterval = 1
    /\ sock = (1 :> "OPEN")
    /\ opened = {1}
    /\ heartbeats = {1}
    /\ timers = << >>
    /\ exitTimers = 0
    /\ exitCode = NULL
    /\ signals = 0
    /\ sent = << [sock |-> 1, rs |-> "OPEN", method |-> "logsSubscribe",
                   id |-> SUBSCRIBE_ID, params |-> NULL] >>
    /\ nOpen = 1
    /\ closesSinceOpen = 0
    /\ initsSinceOpen = 0
    /\ lastOpen = [sock |-> 1, rc |-> 0, rd |-> Ms(INITIAL_RETRY_DELAY),
                   afterRetry |-> FALSE, subscribed |-> 1, hb |-> NULL]
    /\ lastMsg = << >>
    /\ lastBeat = << >>

\* ... and the analyzer has not been called
OpenConn ==
    /\ OpenTransport
    /\ tx = << >>
    /\ report = << >>

\* MaxCalls relevant notifications have been handled on the open transport:
\* every call is at its first await.
FetchInit ==
    /\ OpenConn
    /\ fetches \in { [i \in 1..MaxCalls |-> NewFetch(sigs[i])] :
                        sigs \in [1..MaxCalls -> CallSigs] }

\* the steps of the calls in flight, in any interleaving
FetchNext ==
    \/ \E i \in 1..Len(fetches) : FetchFirstDelay(i)
    \/ \E i \in 1..Len(fetches), o \in Outcomes : FetchAttempt(i, o)
    \/ \E i \in 1..Len(fetches) : FetchBackoff(i)

FetchSpec == FetchInit /\ [][FetchNext]_vars

\* The notifications of the concurrent runs: of interest or not, for either
\* signature
ConcMessages ==
    { Notification(s, << {LP_ACCOUNT_ADDRESS} >>) : s \in CallSigs }
    \cup { Notification(s, << {"invoke"} >>) : s \in CallSigs }

ConcInit ==
    /\ OpenConn
    /\ fetches = << >>

\* Notifications arrive on the open transport while the calls they started
\* take their steps
ConcNext ==
    \/ \E m \in ConcMessages : OnMessageObserved(ws, m)
    \/ \E i \in 1..Len(fetches) : FetchFirstDelay(i)
    \/ \E i \in 1..Len(fetches), o \in Outcomes : FetchAttempt(i, o)
    \/ \E i \in 1..Len(fetches) : FetchBackoff(i)

ConcSpec == ConcInit /\ [][ConcNext]_vars

\* The connection with every handled message recorded; the calls the
\* notifications start are left at their first await.
MsgNext ==
    \/ Start
    \/ \E t \in Socks : OnOpen(t)
    \/ \E t \in Socks, m \in Messages : OnMessageObserved(t, m)
    \/ \E t \in Socks : OnClose(t)
    \/ \E i \in 1..Len(timers) : ReconnectTimer(i)
    \/ \E sig \in {"SIGINT", "SIGTERM"} : Signal(sig)
    \/ ExitTimer

MsgSpec == Init /\ [][MsgNext]_vars

\* The connection with the heartbeat callbacks recorded; the calls the
\* notifications start are left at their first await.
HeartbeatNext ==
    \/ Start
    \/ \E t \in Socks : OnOpen(t)
    \/ \E t \in Socks, m \in Messages : OnMessage(t, m)
    \/ \E t \in Socks : OnClose(t)
    \/ \E i \in 1..Len(timers) : ReconnectTimer(i)
    \/ \E sig \in {"SIGINT", "SIGTERM"} : Signal(sig)
    \/ ExitTimer
    \/ \E id \in heartbeats : HeartbeatTick(id)

HeartbeatSpec == Init /\ [][HeartbeatNext]_vars

\* The connection with a caller that calls initialize() again; no signal is
\* delivered and the calls the notifications start are left at their first await.
ReinitNext ==
    \/ Start
    \/ Reinitialize
    \/ \E t \in Socks : OnOpen(t)
    \/ \E t \in Socks, m \in Messages : OnMessage(t, m)
    \/ \E t \in Socks : OnClose(t)
    \/ \E i \in 1..Len(timers) : ReconnectTimer(i)

ReinitSpec == Init /\ [][ReinitNext]_vars

\* ------------------------------------------------------------ properties

Fetches == 1..Len(fetches)

FailedBranches == { Branch(o) : o \in Failures }

\* min(initial * 1.5^n, max), in model units
Backoff(initial, n, max) == Min((Ms(initial) * 3^n) \div 2^n, Ms(max))

Unsubscribes == { i \in 1..Len(sent) : sent[i].method = "logsUnsubscribe" }

\* C1: analyzeTransaction is called for a fetch only once that fetch has returned a
\* record; a fetch that returned null after exhausting its attempts has no analyzer call.
C1_AnalyzeOnlyAfterRecord ==
    \A i \in Fetches :
        /\ fetches[i].analyzed > 0 => fetches[i].pc = "done" /\ fetches[i].result = "record"
        /\ fetches[i].result = "null" => fetches[i].analyzed = 0

C1_Witness ==
    \E i \in Fetches : fetches[i].result = "record" /\ fetches[i].analyzed = 1
                       /\ fetches[i].calls = TXN_FETCH_MAX_RETRIES

\* C2 (as claimed): once a signal has triggered shutdown, reconnect() never runs (no
\* reconnect is scheduled after the shutdown began) and initialize() opens no new
\* transport (no transport is connecting).
C2_NoReconnectAfterShutdown ==
    signals > 0 =>
        /\ \A i \in 1..Len(timers) : ~ timers[i].afterShutdown
        /\ \A t \in Socks : sock[t] # "CONNECTING"

\* C3 (as claimed): whatever the number of signals, at most one logsUnsubscribe is
\* sent, it carries id 999, and it is sent while the transport is still open (before
\* ws.close()).
C3_ExactlyOneUnsubscribe ==
    /\ Cardinality(Unsubscribes) <= 1
    /\ \A i \in Unsubscribes : sent[i].id = UNSUBSCRIBE_ID /\ sent[i].rs = "OPEN"

\* C4 (as claimed): after a signal the process exits with code 0 only.
C4_SignalExitsZero ==
    (signals > 0 /\ exitCode # NULL) => exitCode = 0

\* C5: exit code 1 is reached exactly when MAX_RETRIES + 1 transports in a row (the
\* first and MAX_RETRIES reconnects) closed without an open event; if no transport
\* ever opened, exactly MAX_RETRIES + 1 initialize() calls were made; and at exit
\* nothing is left that could call initialize().
C5_BudgetExhaustion ==
    /\ exitCode = 1 =>
          /\ retryCount = MAX_RETRIES
          /\ closesSinceOpen = MAX_RETRIES + 1
          /\ initsSinceOpen = MAX_RETRIES + (IF nOpen = 0 THEN 1 ELSE 0)
          /\ Socks = {}
          /\ timers = << >>
    /\ closesSinceOpen > MAX_RETRIES => exitCode = 1
    /\ retryCount = Min(closesSinceOpen, MAX_RETRIES)

C5_Witness == exitCode = 1 /\ nOpen = 0 /\ signals = 0

\* C6: the open handler has reset retryCount to 0 and retryDelay to
\* INITIAL_RETRY_DELAY by the time it sends the subscribe request, and they keep
\* these values while the transport it opened is the current, unclosed one.
C6_OpenResetsRetryState ==
    /\ lastOpen # << >> =>
          /\ lastOpen.rc = 0
          /\ lastOpen.rd = Ms(INITIAL_RETRY_DELAY)
          /\ lastOpen.subscribed = 1
    /\ ws \in opened => retryCount = 0 /\ retryDelay = Ms(INITIAL_RETRY_DELAY)

C6_Witness ==
    /\ lastOpen # << >>
    /\ lastOpen.afterRetry
    /\ ws \in opened
    /\ Len(sent) = 1 /\ sent[1].method = "logsSubscribe"
    /\ heartbeatInterval # NULL

\* C7: the reconnect scheduled after the n-th consecutive close without an open
\* waits min(INITIAL_RETRY_DELAY * 1.5^(n-1), MAX_RETRY_DELAY), never more than
\* MAX_RETRY_DELAY.
C7_ReconnectBackoff ==
    \A i \in 1..Len(timers) :
        /\ timers[i].delay = Backoff(INITIAL_RETRY_DELAY, timers[i].n - 1, MAX_RETRY_DELAY)
        /\ timers[i].delay <= Ms(MAX_RETRY_DELAY)

C7_Witness ==
    \E i \in 1..Len(timers) :
        /\ timers[i].n = MAX_RETRIES
        /\ timers[i].delay = Ms(MAX_RETRY_DELAY)
        /\ Ms(INITIAL_RETRY_DELAY) * 3^(MAX_RETRIES - 1) > Ms(MAX_RETRY_DELAY) * 2^(MAX_RETRIES - 1)

\* C8 (as claimed): under sustained failure with the default configuration the delays
\* slept between attempts are 2000, 3000, 4500.
C8_SleepsThreeDelays ==
    \A i \in Fetches :
        fetches[i].result = "null" => fetches[i].slept = << Ms(2000), Ms(3000), Ms(4500) >>

\* C8 (amended): the k-th sleep of a call lasts
\* min(TXN_FETCH_INITIAL_DELAY * 1.5^(k-1), TXN_FETCH_MAX_DELAY); a sleep follows a
\* failed attempt only while attempts remain, so a call that fails throughout sleeps
\* TXN_FETCH_MAX_RETRIES - 1 times: 2000, 3000 for the defaults.
C8_FetchBackoff ==
    \A i \in Fetches :
        /\ \A k \in 1..Len(fetches[i].slept) :
              fetches[i].slept[k] =
                  Backoff(TXN_FETCH_INITIAL_DELAY, k - 1, TXN_FETCH_MAX_DELAY)
        /\ Len(fetches[i].slept) <= TXN_FETCH_MAX_RETRIES - 1
        /\ fetches[i].result = "null" => fetches[i].slept = << Ms(2000), Ms(3000) >>

C8_Witness ==
    \E i \in Fetches : fetches[i].result = "null" /\ Len(fetches[i].slept) = 2

\* C9: a call that returns a record on its k-th attempt has made exactly k network
\* calls (1 when the first attempt succeeds), k - 1 of them failures each followed by
\* a sleep; a call that returns null has made exactly TXN_FETCH_MAX_RETRIES calls, all
\* failures.
C9_CallCount ==
    \A i \in Fetches :
        LET f == fetches[i] IN
        /\ f.calls <= TXN_FETCH_MAX_RETRIES
        /\ f.result = "record" =>
              /\ f.calls = f.attempt
              /\ f.calls = Len(f.slept) + 1
              /\ Accepted(f.last)
        /\ f.result = "null" =>
              /\ f.calls = TXN_FETCH_MAX_RETRIES
              /\ f.last \in FailedBranches
        /\ f.pc = "done" <=> f.result # "pending"

C9_Witness ==
    \E i \in Fetches : fetches[i].result = "record" /\ fetches[i].calls = 2

\* C10: no call ends by throwing: a finished call holds a record or null; and a failed
\* attempt of any kind (empty result, HTTP status, thrown error) costs exactly one
\* attempt and one network call and is followed by the same backoff.
C10_FailuresAbsorbed ==
    \A i \in Fetches :
        LET f == fetches[i] IN
        /\ f.result \in {"pending", "record", "null"}
        /\ f.pc \in {"firstDelay", "request", "backoff", "done"}
        /\ f.attempt \in 1..(TXN_FETCH_MAX_RETRIES + 1)
        /\ f.pc = "backoff" =>
              /\ f.last \in FailedBranches
              /\ f.calls = f.attempt
              /\ Len(f.slept) = f.attempt
        /\ f.pc = "request" =>
              /\ f.calls = f.attempt - 1
              /\ Len(f.slept) = f.attempt - 1
              /\ f.attempt > 1 => f.last \in FailedBranches
        /\ f.result = "null" => f.attempt = TXN_FETCH_MAX_RETRIES + 1

C10_Witness ==
    \E i \in Fetches :
        /\ fetches[i].pc = "backoff"
        /\ fetches[i].last = Branch("http")
        /\ fetches[i].calls = 2

\* C11 (as claimed): a call returns a record only for a response whose first element
\* carries the slot and the transaction / meta fields; a non-empty response without
\* them is a failed attempt.
C11_RecordHasFields ==
    \A i \in Fetches : fetches[i].result = "record" => fetches[i].last = "ok"

\* the backoff sleeps call f has completed
SleepsDone(f) == IF f.pc = "backoff" THEN Len(f.slept) - 1 ELSE Len(f.slept)

\* C12: the attempt counter and the backoff delay of a call are those of its own
\* failed attempts, whatever the calls interleaved with it have done, and a call
\* gives up only after its own TXN_FETCH_MAX_RETRIES attempts.
C12_RetryStatePerCall ==
    \A i \in Fetches :
        LET f == fetches[i]
        IN  /\ f.delay = Backoff(TXN_FETCH_INITIAL_DELAY, SleepsDone(f), TXN_FETCH_MAX_DELAY)
            /\ f.slept = [k \in 1..Len(f.slept) |->
                            Backoff(TXN_FETCH_INITIAL_DELAY, k - 1, TXN_FETCH_MAX_DELAY)]
            /\ f.pc = "firstDelay" => f.attempt = 1 /\ f.calls = 0
            /\ f.pc = "request" => f.attempt = f.calls + 1
            /\ f.pc = "backoff" => f.attempt = f.calls
            /\ f.result = "null" => f.calls = TXN_FETCH_MAX_RETRIES
            /\ f.result = "record" => f.calls = Len(f.slept) + 1

\* one call has used up its attempts, and a call for another signature, still
\* sleeping when that happened or later, goes on to its last attempt and gets a record
C12_Witness ==
    \E i, j \in Fetches :
        /\ fetches[i].sig # fetches[j].sig
        /\ fetches[i].result = "null"
        /\ fetches[j].result = "record"
        /\ fetches[j].calls = TXN_FETCH_MAX_RETRIES

\* ---- the message handled last (observed runs)

Seen == lastMsg # << >>

\* a logsNotification with params
SeenNotification == Seen /\ lastMsg.m.valid /\ lastMsg.m.method = "logsNotification"
                         /\ lastMsg.m.params = "value"

\* ... that carries a signature and a log array
SeenSigned == SeenNotification /\ lastMsg.m.sig # "" /\ lastMsg.m.hasLogs

SeenLines == { lastMsg.m.logs[k] : k \in 1..Len(lastMsg.m.logs) }

\* C13: a notification with a signature and a log array, one line of which
\* contains the watched address, passes the filter and starts a fetch.
C13_AddressIsRelevant ==
    (SeenSigned /\ \E l \in SeenLines : Includes(l, LP_ACCOUNT_ADDRESS))
        => /\ RelevantLogs(lastMsg.m.logs) # {}
           /\ lastMsg.started = 1
           /\ fetches # << >>

C13_Witness ==
    /\ Seen
    /\ lastMsg.m = Notification("sigA", << {"invoke"}, {LP_ACCOUNT_ADDRESS} >>)
    /\ lastMsg.started = 1
    /\ fetches[Len(fetches)] = NewFetch("sigA")

\* the conditions the claim C14 lists for a log line
ListedLine(l) ==
    \/ Includes(l, "swap")
    \/ \E programId \in METEORA_PROGRAMS : Includes(l, programId)
    \/ Includes(l, LP_ACCOUNT_ADDRESS)
    \/ Includes(ToLowerCase(l), "pool")
    \/ Includes(ToLowerCase(l), "liquidity")

\* C14 (as claimed): a notification with no log line, or none that contains
\* "swap", a program identifier, the watched address, or in any case "pool" or
\* "liquidity", does not pass the filter and starts no fetch.
C14_UnlistedIsIrrelevant ==
    (SeenNotification /\ \A l \in SeenLines : ~ ListedLine(l))
        => lastMsg.started = 0 /\ RelevantLogs(lastMsg.m.logs) = {}

\* C14 (amended): ... nor "Meteora" nor "DAMM" ...
C14_UnlistedIsIrrelevantAmended ==
    (SeenNotification /\ \A l \in SeenLines :
          ~ (ListedLine(l) \/ Includes(l, "Meteora") \/ Includes(l, "DAMM")))
        => lastMsg.started = 0 /\ RelevantLogs(lastMsg.m.logs) = {}

C14_Witness ==
    /\ Seen
    /\ lastMsg.m = Notification("sigA", << {"invoke"}, {"Swap"} >>)
    /\ lastMsg.started = 0

\* C15 (as claimed): one log line that in any case contains "liquidity", or one
\* that contains "pool", is enough to pass the filter and start a fetch.
C15_LiquidityOrPoolIsRelevant ==
    (SeenSigned /\ \E l \in SeenLines :
          Includes(ToLowerCase(l), "liquidity") \/ Includes(ToLowerCase(l), "pool"))
        => lastMsg.started = 1

\* C16 (as claimed): once the current transport has closed, the handle is null,
\* no heartbeat timer is armed, and one reconnect is pending or the process has
\* exited for want of retries.
C16_CloseClearsAll ==
    (Started /\ ReadyState(ws) = "CLOSED")
        => /\ subscriptionId = NULL
           /\ heartbeatInterval = NULL
           /\ heartbeats = {}
           /\ exitCode = 1 \/ Len(timers) = 1

\* C17 (as claimed): once initialize() has replaced a transport that was
\* connecting or open, the open and close events of the replaced transport leave
\* the handle, the heartbeat timer and the retry counter alone and schedule nothing.
C17_SupersededIsInert ==
    [][ \A t \in Socks :
          (t # ws /\ (OnOpen(t) \/ OnClose(t)))
              => UNCHANGED << subscriptionId, heartbeatInterval, heartbeats,
                              retryCount, timers >> ]_vars

\* C18: handling a payload that is not JSON changes nothing: the transport, the
\* handle, the retry counter and delay, the heartbeat timer, the calls in flight,
\* the pending reconnects and the process all stay as they were.
C18_MalformedDropped ==
    [][ (lastMsg' # lastMsg /\ ~ lastMsg'.m.valid)
            => UNCHANGED << ws, sock, opened, subscriptionId, retryCount, retryDelay,
                            heartbeatInterval, heartbeats, fetches, timers, exitTimers,
                            exitCode, sent >> ]_vars

C18_Witness ==
    /\ Seen
    /\ lastMsg.m = Malformed
    /\ Running
    /\ ReadyState(lastMsg.sock) = "OPEN"
    /\ heartbeats # {}

C20_SubscribeAndAck ==
    [][ /\ nOpen' # nOpen =>
              sent' = Append(sent, [sock |-> lastOpen'.sock, rs |-> "OPEN",
                                    method |-> "logsSubscribe", id |-> SUBSCRIBE_ID,
                                    params |-> NULL])
        /\ (subscriptionId' # subscriptionId /\ subscriptionId' # NULL) =>
              /\ lastMsg' # << >>
              /\ lastMsg'.m.valid /\ lastMsg'.m.hasResult /\ lastMsg'.m.id = SUBSCRIBE_ID
              /\ subscriptionId' = lastMsg'.m.result
              /\ UNCHANGED << sent, nOpen >> ]_vars

\* the subscribe went out on the open transport and its reply set the handle
C20_Witness ==
    /\ nOpen = 1
    /\ Len(sent) = 1
    /\ sent[1].method = "logsSubscribe"
    /\ sent[1].sock = ws
    /\ Seen
    /\ lastMsg.m = Ack(7)
    /\ subscriptionId = 7

\* ---------------------------------------------------------------------------
\* TransactionAnalyzer (transactionAnalyzer.ts, lines 9-153)
\* ---------------------------------------------------------------------------

\* a member the record does not have (undefined)
UNDEFINED == 0 - 2

MaxAccounts == 2          \* account keys of a record
MaxTokens == 1            \* entries of each token balance array

\* x || 0 on a number that may be missing
OrZero(x) == IF x = UNDEFINED \/ x = NULL \/ x = 0 THEN 0 ELSE x

\* array[i] for the (1-based) position i: undefined past the end
At(s, i) == IF i <= Len(s) THEN s[i] ELSE UNDEFINED

SeqsUpTo(S, n) == UNION { [1..k -> S] : k \in 0..n }

\* change / 1e9
LAMPORTS_PER_SOL == 1000000000

\* new Date(tx.blockTime * 1000): undefined * 1000 is NaN, an invalid date, on
\* which toISOString() throws a RangeError; null * 1000 is 0
ValidDate(blockTime) == blockTime # UNDEFINED
Timestamp(blockTime) == IF blockTime = NULL THEN 0 ELSE blockTime * 1000

\* for (let i = 0; i < accountKeys.length; i++)
SolIndices_pre(t) == 1..Len(t.preBalances)
SolIndices(t) == 1..Len(t.accountKeys)

\* const change = postBalance - preBalance
SolChange(t, i) == OrZero(At(t.postBalances, i)) - OrZero(At(t.preBalances, i))

\* change.change > 0 ? `+${toFixed(9)}` : toFixed(9): the sign printed and the
\* digits, which are the lamports of the change (1 lamport = 1e-9 SOL)
ChangeStr(lamports) ==
    [plus |-> lamports > 0, nano |-> lamports]

\* analyzeSolBalanceChanges: the changes pushed, in index order; the value is
\* the quotient change / 1e9, kept as numerator and denominator
AnalyzeSolBalanceChanges(t) ==
    LET all == [i \in 1..Len(t.accountKeys) |->
                  [account |-> t.accountKeys[i],
                   listed  |-> i \in SolIndices(t),
                   change  |-> [num |-> SolChange(t, i), den |-> LAMPORTS_PER_SOL],
                   str     |-> ChangeStr(SolChange(t, i))]]
        Pushed(e) == e.listed /\ e.change.num # 0
        kept == SelectSeq(all, Pushed)
    IN  [j \in 1..Len(kept) |-> [account |-> kept[j].account,
                                 change  |-> kept[j].change,
                                 str     |-> kept[j].str]]

\* Token amounts are the decimal numbers of the response, counted in units of
\* 1e-7 token: 0, 0.000001, 0.0000011, 0.5 and 0.500001
Amounts == {0, 10, 11, 5000000, 5000010}

\* uiAmount is a JavaScript number: the decimal is read as the nearest IEEE-754
\* double.  DoubleErr(a) is (that double - the decimal), in units of 1e-24,
\* rounded to the nearest unit: 0 and 0.5 are exact, 0.000001 is read as
\* 9.99999999999999954748e-07, 0.500001 as 0.50000100000000002876...
DoubleErr(a) ==
    CASE a = 0       -> 0
      [] a = 10      -> 0 - 45
      [] a = 11      -> 56
      [] a = 5000000 -> 0
      [] a = 5000010 -> 28755665

\* the literal 0.000001 of the comparison, as decimal units and as a double
DUST == 10
DUST_ERR == DoubleErr(DUST)

\* `${balance.accountIndex}-${balance.mint}`
TokenKey(b) == << b.accountIndex, b.mint >>

TokenKeys(list) == { TokenKey(list[i]) : i \in 1..Len(list) }

\* map.set(key, balance) for every entry in turn: the last entry of a key stays
TokenMapGet(list, k) ==
    LET last == CHOOSE i \in 1..Len(list) :
                    /\ TokenKey(list[i]) = k
                    /\ \A j \in 1..Len(list) : TokenKey(list[j]) = k => j <= i
    IN  list[last]

\* map.get(key)?.uiTokenAmount?.uiAmount || 0
TokenAmount(list, k) ==
    IF k \in TokenKeys(list) THEN OrZero(TokenMapGet(list, k).uiAmount) ELSE 0

\* Math.abs(postAmount - preAmount) > 0.000001 on doubles.  The difference of
\* two of the doubles above whose decimals differ by other than 0.000001 is
\* further from the double 0.000001 than any rounding; when the decimals differ
\* by 0.000001 the subtraction is exact and the rounding errors of the operands
\* decide.
ExceedsDust(pre, post) ==
    LET d == post - pre
        e == DoubleErr(post) - DoubleErr(pre)
        absd == IF d < 0 THEN 0 - d ELSE d
        abse == IF d < 0 THEN 0 - e ELSE e
    IN  absd > DUST \/ (absd = DUST /\ abse > DUST_ERR)

\* analyzeTokenBalanceChanges: the changes logged, each with the difference of
\* the amounts in decimal units
AnalyzeTokenBalanceChanges(t) ==
    LET pre == t.preTokenBalances
        post == t.postTokenBalances
        allKeys == TokenKeys(pre) \cup TokenKeys(post)
    IN  IF Len(pre) > 0 \/ Len(post) > 0
        THEN { [accountIndex |-> k[1],
                mint    |-> k[2],
                account |-> At(t.accountKeys, k[1] + 1),
                change  |-> TokenAmount(post, k) - TokenAmount(pre, k)] :
               k \in { k \in allKeys :
                         ExceedsDust(TokenAmount(pre, k), TokenAmount(post, k)) } }
        ELSE {}

Fault(kind) == [fault |-> kind, timestamp |-> NULL, sol |-> << >>, tokens |-> {}]

\* analyzeTransaction(tx): what it prints, or the exception it raises
AnalyzeTransaction(t) ==
    IF ~ ValidDate(t.blockTime) THEN Fault("RangeError")
    ELSE IF ~ t.meta THEN Fault("TypeError")
    ELSE [fault     |-> "none",
          timestamp |-> Timestamp(t.blockTime),
          sol       |-> AnalyzeSolBalanceChanges(t),
          tokens    |-> AnalyzeTokenBalanceChanges(t)]

\* The records given to the analyzer
AccountNames == << LP_ACCOUNT_ADDRESS, "account2", "account3", "account4" >>
Lamports == {0, 1000000000, 1500000000}
BlockTimes == {UNDEFINED, NULL, 0, 1700000}
Mints == {"mintA", "mintB"}

TokenEntries ==
    [accountIndex : {0}, mint : Mints, uiAmount : Amounts \cup {UNDEFINED}]

Tx(bt, m, n, pre, post, tpre, tpost) ==
    [blockTime |-> bt, meta |-> m,
     accountKeys |-> SubSeq(AccountNames, 1, n),
     preBalances |-> pre, postBalances |-> post,
     preTokenBalances |-> tpre, postTokenBalances |-> tpost]

Transactions ==
    { Tx(bt, m, 1, << 1000000000 >>, << 1500000000 >>, << >>, << >>) :
         bt \in BlockTimes, m \in BOOLEAN }
    \cup { Tx(1700000, TRUE, n, pq[1], pq[2], << >>, << >>) :
              n \in 1..MaxAccounts,
              pq \in SeqsUpTo(Lamports, MaxAccounts) \X SeqsUpTo(Lamports, MaxAccounts) }
    \cup { Tx(NULL, TRUE, 1, << 0 >>, << 0 >>, tt[1], tt[2]) :
              tt \in SeqsUpTo(TokenEntries, MaxTokens) \X SeqsUpTo(TokenEntries, MaxTokens) }

\* HeliusApiService has returned the record tx to handleMessage
AnalyzerInit ==
    /\ OpenTransport
    /\ fetches = << >>
    /\ tx \in Transactions
    /\ report = << >>

\* TransactionAnalyzer.analyzeTransaction(txnDetails), called once
Analyze ==
    /\ report = << >>
    /\ report' = AnalyzeTransaction(tx)
    /\ UNCHANGED << ws, retryCount, retryDelay, subscriptionId, heartbeatInterval,
                    sock, opened, heartbeats, timers, exitTimers, exitCode, signals,
                    sent, fetches, nOpen, closesSinceOpen, initsSinceOpen, lastOpen,
                    lastMsg, lastBeat, tx >>

AnalyzerNext == Analyze

AnalyzerSpec == AnalyzerInit /\ [][AnalyzerNext]_vars

Analyzed == report # << >>

\* C24: a record without a block time, or with a null one, is analyzed without
\* an exception.
C24_AbsentBlockTimeAnalyzed ==
    (Analyzed /\ tx.meta /\ tx.blockTime \in {UNDEFINED, NULL})
        => report.fault = "none"

\* the balance of index i stated by an array, a missing entry counting as 0
Stated(s, i) == IF i <= Len(s) THEN s[i] ELSE 0

\* C27: for every account index a SOL change is reported iff post - pre is not
\* zero, a missing entry counting as 0, and the value reported is that
\* difference over 1e9; for pre [1000000000] and post [1500000000] the one
\* change reported is +0.5.
C27_SolChangeReported ==
    (Analyzed /\ report.fault = "none") =>
        /\ \A i \in 1..Len(tx.accountKeys) :
              LET d == Stated(tx.postBalances, i) - Stated(tx.preBalances, i)
                  rs == { j \in 1..Len(report.sol) :
                             report.sol[j].account = tx.accountKeys[i] }
              IN  /\ (rs # {}) <=> (d # 0)
                  /\ \A j \in rs :
                        /\ report.sol[j].change = [num |-> d, den |-> 1000000000]
                        /\ report.sol[j].str = [plus |-> d > 0, nano |-> d]
        /\ Len(report.sol) <= Len(tx.accountKeys)
        /\ (/\ Len(tx.accountKeys) = 1
            /\ tx.preBalances = << 1000000000 >>
            /\ tx.postBalances = << 1500000000 >>)
              => /\ Len(report.sol) = 1
                 /\ report.sol[1].change.num * 2 = report.sol[1].change.den
                 /\ report.sol[1].str.plus

\* the second account has no entry in preBalances and 1.5 SOL afterwards; the
\* first account is unchanged
C27_Witness ==
    /\ Analyzed
    /\ report.fault = "none"
    /\ Len(tx.accountKeys) = 2
    /\ tx.preBalances = << 1000000000 >>
    /\ tx.postBalances = << 1000000000, 1500000000 >>
    /\ Len(report.sol) = 1
    /\ report.sol[1].account = "account2"
    /\ report.sol[1].change.num = 1500000000

\* the amount of key k stated by an array, a missing side counting as 0
StatedAmount(list, k) ==
    IF k \in TokenKeys(list) /\ TokenMapGet(list, k).uiAmount # UNDEFINED
    THEN TokenMapGet(list, k).uiAmount ELSE 0

\* C28: for every key of the pre or post token balances a change is reported
\* iff |post - pre| of the stated amounts, a missing side counting as 0, is
\* strictly greater than 0.000001.
C28_DustSuppressed ==
    (Analyzed /\ report.fault = "none") =>
        \A k \in TokenKeys(tx.preTokenBalances) \cup TokenKeys(tx.postTokenBalances) :
            LET d == StatedAmount(tx.postTokenBalances, k)
                       - StatedAmount(tx.preTokenBalances, k)
            IN  (\E r \in report.tokens : << r.accountIndex, r.mint >> = k)
                    <=> (d > 10 \/ d < 0 - 10)

\* ---------------------------------------------------------------------------
\* The monolithic client (index.ts): the signature alone starts a fetch
\* ---------------------------------------------------------------------------

\* The try block of ws.onmessage in index.ts: what it does with a message, or
\* the exception it raises
IndexDispatch_filtering(m) ==
    IF ~ m.valid THEN "parseError"
    ELSE IF m.hasResult /\ m.id = SUBSCRIBE_ID THEN "ack"
    ELSE IF m.method = "logsNotification" /\ m.params # "absent"
         THEN IF m.params = "noResult" THEN "typeError"
              ELSE IF m.params = "value" /\ m.sig # "" /\ m.hasLogs
                        /\ RelevantLogs(m.logs) # {}
                   THEN "fetch" ELSE "skipped"
    ELSE "other"
IndexDispatch(m) ==
    IF ~ m.valid THEN "parseError"
    ELSE IF m.hasResult /\ m.id = SUBSCRIBE_ID THEN "ack"
    ELSE IF m.method = "logsNotification" /\ m.params # "absent"
         THEN IF m.params = "noResult" THEN "typeError"
              ELSE IF m.params = "value" /\ m.sig # "" THEN "fetch" ELSE "skipped"
    ELSE "other"

\* fetchTransactionDetails(signature) of index.ts when it reaches its first
\* await: one request, no delay before it and no retry
IndexNewFetch(sig) == [NewFetch(sig) EXCEPT !.pc = "request"]

\* ws.onmessage of index.ts for a message m that arrived on transport t
IndexOnMessage(t, m) ==
    /\ Running
    /\ t \in opened
    /\ sock[t] \in {"OPEN", "CLOSING"}
    /\ LET h == IndexDispatch(m)
       IN  /\ subscriptionId' = IF h = "ack" THEN m.result ELSE subscriptionId
           /\ IF h = "fetch"
              THEN /\ Len(fetches) < MaxCalls
                   /\ fetches' = Append(fetches, IndexNewFetch(m.sig))
              ELSE UNCHANGED fetches
    /\ lastMsg' = [sock |-> t, m |-> m, started |-> Len(fetches') - Len(fetches)]
    /\ UNCHANGED << ws, retryCount, retryDelay, heartbeatInterval, sock, opened,
                    heartbeats, timers, exitTimers, exitCode, signals, sent, nOpen,
                    closesSinceOpen, initsSinceOpen, lastOpen, lastBeat, tx, report >>

\* the request of call i is answered: analyzeTransaction(formattedTx) when
\* data has a first element that is an object, else a log line; every
\* exception is caught inside the call
IndexFetchAttempt(i, o) ==
    /\ Running
    /\ i \in 1..Len(fetches)
    /\ fetches[i].pc = "request"
    /\ fetches' = [fetches EXCEPT ![i] =
                      [@ EXCEPT !.calls = 1, !.last = Branch(o), !.pc = "done",
                                !.result = IF Accepted(o) THEN "record" ELSE "null",
                                !.analyzed = IF Accepted(o) THEN 1 ELSE 0]]
    /\ UNCHANGED connVars

IndexInit ==
    /\ OpenConn
    /\ fetches = << >>

IndexNext ==
    \/ \E m \in Messages : IndexOnMessage(ws, m)
    \/ \E i \in 1..Len(fetches), o \in Outcomes : IndexFetchAttempt(i, o)

IndexSpec == IndexInit /\ [][IndexNext]_vars

\* C30: in index.ts a logsNotification that carries a signature starts exactly
\* one fetch, whatever its log lines and whether or not it has any.
C30_SignatureStartsFetch ==
    [][ (lastMsg' # lastMsg /\ lastMsg'.m.valid
           /\ lastMsg'.m.method = "logsNotification" /\ lastMsg'.m.sig # "")
            => /\ lastMsg'.started = 1
               /\ fetches' = Append(fetches, IndexNewFetch(lastMsg'.m.sig)) ]_vars

\* a notification with a signature and no log array started a fetch while an
\* earlier one was not answered
C30_Witness ==
    /\ Seen
    /\ lastMsg.m = NoLogs("sigA")
    /\ lastMsg.started = 1
    /\ Len(fetches) = 2
    /\ fetches[1].pc = "request"

\* C21: a notification of interest is handled whatever the earlier calls are
\* doing (none is waited for), it starts one call, and a call ends with one
\* analyzer call if it returned a record and with none otherwise.
C21_ConcurrentNotifications ==
    /\ \A m \in ConcMessages :
          (Running /\ RelevantLogs(m.logs) # {} /\ Len(fetches) < MaxCalls)
              => ENABLED OnMessageObserved(ws, m)
    /\ (SeenSigned /\ RelevantLogs(lastMsg.m.logs) # {}) => lastMsg.started = 1
    /\ \A i \in Fetches :
          fetches[i].analyzed = IF fetches[i].result = "record" THEN 1 ELSE 0

\* the second call was started while the first was sleeping between attempts
C21_Witness ==
    /\ Len(fetches) = 2
    /\ fetches[1].pc = "backoff"
    /\ fetches[2] = NewFetch("sigB")
    /\ Seen
    /\ lastMsg.m = Notification("sigB", << {LP_ACCOUNT_ADDRESS} >>)
    /\ lastMsg.started = 1

\* C22: the call for a notification is made in the step that delivers it and
\* takes its place after the calls of all notifications delivered before; no
\* step changes the order of the calls made.
C22_StartedInDeliveryOrder ==
    [][ /\ Len(fetches') >= Len(fetches)
        /\ \A i \in 1..Len(fetches) : fetches'[i].sig = fetches[i].sig
        /\ Len(fetches') > Len(fetches) =>
              /\ lastMsg'.started = 1
              /\ fetches' = Append(fetches, NewFetch(lastMsg'.m.sig)) ]_vars

\* the call started second is over while the call started first is not
C22_Witness ==
    /\ Len(fetches) = 2
    /\ fetches[1].sig = "sigA"
    /\ fetches[2].sig = "sigB"
    /\ fetches[1].pc # "done"
    /\ fetches[2].pc = "done"
    /\ fetches[2].analyzed = 1

\* C25: a call is started only by a logsNotification whose value carries a
\* signature and a log array; a message without the signature or without the
\* log array, and the reply to the subscribe request, start none.
C25_FetchOnlyForNotification ==
    /\ (Seen /\ lastMsg.started # 0) =>
          /\ SeenSigned
          /\ ~ (lastMsg.m.hasResult /\ lastMsg.m.id = SUBSCRIBE_ID)
    /\ (Seen /\ (lastMsg.m.sig = "" \/ ~ lastMsg.m.hasLogs
                   \/ lastMsg.m \in { Ack(h) : h \in Handles }))
          => lastMsg.started = 0

\* a notification with a signature and no log array was handled
C25_Witness ==
    /\ Seen
    /\ lastMsg.m = NoLogs("sigA")
    /\ lastMsg.started = 0
    /\ Len(fetches) < MaxCalls

\* C26: handling a message that carries an error changes neither the transports
\* nor the handle, the retry counter, the retry delay or the heartbeat timer,
\* schedules no reconnect and ends nothing.
C26_ErrorOnlyLogged ==
    [][ (lastMsg' # lastMsg /\ lastMsg'.m.valid /\ lastMsg'.m.error)
            => UNCHANGED << ws, sock, opened, subscriptionId, retryCount, retryDelay,
                            heartbeatInterval, heartbeats, timers, exitTimers,
                            exitCode, sent >> ]_vars

\* the subscribe request was answered with an error after an earlier reply had
\* set the handle
C26_Witness ==
    /\ Seen
    /\ lastMsg.m = ErrorReply(SUBSCRIBE_ID)
    /\ Running
    /\ ReadyState(lastMsg.sock) = "OPEN"
    /\ subscriptionId = 7
    /\ timers = << >>

\* the fields of the connection the claim C23 names
handleVars == << ws, subscriptionId, retryCount, retryDelay, heartbeatInterval,
                 heartbeats >>

\* a step of a call already made
FetchStep == fetches' # fetches /\ Len(fetches') = Len(fetches)

\* C23 (as claimed): a step of a call changes none of the transport, the handle,
\* the retry counter, the retry delay and the heartbeat timer, and these change
\* only in the open, close and message callbacks and in shutdown.
C23_OnlyInCallbacks ==
    [][ /\ FetchStep => UNCHANGED handleVars
        /\ handleVars' # handleVars =>
              \/ \E t \in Socks : OnOpen(t) \/ OnClose(t)
              \/ \E t \in Socks, m \in Messages : OnMessage(t, m)
              \/ \E sig \in {"SIGINT", "SIGTERM"} : Signal(sig) ]_vars

\* C23 (amended): ... and these change only in initialize(), called at start and
\* by the reconnect timer, whose callback also grows the delay, in the open,
\* close and message callbacks and in shutdown.
C23_OnlyInCallbacksAmended ==
    [][ /\ FetchStep => UNCHANGED handleVars
        /\ handleVars' # handleVars =>
              \/ Start
              \/ \E i \in 1..Len(timers) : ReconnectTimer(i)
              \/ \E t \in Socks : OnOpen(t) \/ OnClose(t)
              \/ \E t \in Socks, m \in Messages : OnMessage(t, m)
              \/ \E sig \in {"SIGINT", "SIGTERM"} : Signal(sig) ]_vars

\* a call has made two network calls and sleeps, the handle set meanwhile
C23_Witness ==
    /\ fetches # << >>
    /\ fetches[1].pc = "backoff"
    /\ fetches[1].calls = 2
    /\ subscriptionId = 7
    /\ retryCount = 0

\* C29: while the process runs, a call that is not over can take its next step
\* whatever has become of the transport, and a call that returned a record has
\* had its analyzer call.
C29_FetchSurvivesClose ==
    \A i \in Fetches :
        /\ (Running /\ fetches[i].pc # "done") =>
              ENABLED (\/ FetchFirstDelay(i)
                       \/ FetchBackoff(i)
                       \/ \E o \in Outcomes : FetchAttempt(i, o))
        /\ fetches[i].result = "record" => fetches[i].analyzed = 1

\* the transport has closed and another is connecting; the call made before
\* the close has gone on to its last attempt and returned a record
C29_Witness ==
    /\ Running
    /\ closesSinceOpen > 0
    /\ ReadyState(ws) = "CONNECTING"
    /\ fetches # << >>
    /\ fetches[1].result = "record"
    /\ fetches[1].calls = TXN_FETCH_MAX_RETRIES
    /\ fetches[1].analyzed = 1

\* C31: in every reachable state the retry counter is between 0 and
\* MAX_RETRIES and the retry delay between INITIAL_RETRY_DELAY and
\* MAX_RETRY_DELAY, both inclusive.
C31_CounterAndDelayBounded ==
    /\ retryCount \in 0..MAX_RETRIES
    /\ retryDelay >= Ms(INITIAL_RETRY_DELAY)
    /\ retryDelay <= Ms(MAX_RETRY_DELAY)

\* the budget is used up, the delay has reached its cap and one more transport
\* is connecting
C31_Witness ==
    /\ Running
    /\ retryCount = MAX_RETRIES
    /\ retryDelay = Ms(MAX_RETRY_DELAY)
    /\ ReadyState(ws) = "CONNECTING"

\* the transports that are connecting or open
Live == { t \in Socks : sock[t] \in {"CONNECTING", "OPEN"} }

\* C32: with the one initialize() call of start(), at most one transport is
\* connecting or open, at most one reconnect timer is pending, and a timer is
\* pending only while no transport is connecting or open.
C32_OneTransportOrOneTimer ==
    /\ Cardinality(Live) <= 1
    /\ Len(timers) <= 1
    /\ timers # << >> => Live = {}

\* the transport that had opened has closed and its reconnect is pending; then
\* the timer has run and the next transport is connecting
C32_Witness ==
    /\ Running
    /\ nOpen = 1
    /\ closesSinceOpen = 2
    /\ initsSinceOpen = 2
    /\ Live = {ws}
    /\ timers = << >>
    /\ retryCount = 2

\* C33: a handle that is not null implies that the current transport has had
\* its open event and not yet its close event, and a handle is set only by a
\* message that arrived on the current transport.
C33_HandleWithinConnection ==
    /\ [](subscriptionId # NULL => (ws # NULL /\ ws \in opened /\ ws \in Socks))
    /\ [][ (subscriptionId' # subscriptionId /\ subscriptionId' # NULL)
              => (lastMsg' # lastMsg /\ lastMsg'.sock = ws /\ ws' = ws) ]_vars
====
